---- MODULE Spec2Model ----
(***************************************************************************)
(* Fitness-certificate store of fitness_certificates_ai.py: the            *)
(* certificates table with its uniqueness constraint, CSV ingestion, the   *)
(* "latest record per (trainset, dept)" reports and the single-record      *)
(* CRUD calls.  Spec, SpecReport and SpecIngest take each call as one      *)
(* step; SpecTx takes upsert_from_csv one statement at a time, with two    *)
(* callers and the sessions' open transactions.                            *)
(*                                                                         *)
(* Text values are sequences of one-character strings, so that strip(),    *)
(* upper(), lower(), startswith() and slicing are computed as Python       *)
(* computes them.  A date string is a record naming its layout and its     *)
(* three numeric fields, so that strptime's format matching and range      *)
(* checks are computed.  An instant is DayNumber * TicksPerDay + tick of   *)
(* the day, always read in the reference timezone (IST), which is how the  *)
(* SQLite DateTime column stores it (no offset kept).                      *)
(***************************************************************************)
EXTENDS Integers, Sequences, FiniteSets, TLC

VARIABLES store, now, result, sessions

vars == <<store, now, result, sessions>>

----------------------------------------------------------------------------
(* Bounds of the model *)

\* most identifiers the table hands out before the model stops inserting
MaxId == 2
\* number of clock readings per calendar day (tick 0 is midnight)
TicksPerDay == 2
\* the clock runs over this many days starting at Today0
MaxDays == 1
\* largest number of data rows in an ingested file
MaxFileRows == 2

----------------------------------------------------------------------------
(* Text *)

\* SQL NULL / Python None in a text position
NULL == <<"<NULL>">>

LowerChars == <<"a","b","c","d","e","f","g","h","i","j","k","l","m",
                "n","o","p","q","r","s","t","u","v","w","x","y","z">>
UpperChars == <<"A","B","C","D","E","F","G","H","I","J","K","L","M",
                "N","O","P","Q","R","S","T","U","V","W","X","Y","Z">>

UpperChar(c) ==
    IF \E i \in 1..26 : LowerChars[i] = c
    THEN UpperChars[CHOOSE i \in 1..26 : LowerChars[i] = c]
    ELSE c

LowerChar(c) ==
    IF \E i \in 1..26 : UpperChars[i] = c
    THEN LowerChars[CHOOSE i \in 1..26 : UpperChars[i] = c]
    ELSE c

\* str.upper()
Upper(s) == [i \in 1..Len(s) |-> UpperChar(s[i])]

\* str.lower()
Lower(s) == [i \in 1..Len(s) |-> LowerChar(s[i])]

\* str.startswith(p)
StartsWith(s, p) == Len(s) >= Len(p) /\ SubSeq(s, 1, Len(p)) = p

\* s[:n]
Take(s, n) == SubSeq(s, 1, IF Len(s) < n THEN Len(s) ELSE n)

\* str.strip(): drop leading and trailing blanks
Strip(s) ==
    LET nonblank == {i \in 1..Len(s) : s[i] # " "}
    IN  IF nonblank = {} THEN <<>>
        ELSE LET lo == CHOOSE i \in nonblank : \A j \in nonblank : i <= j
                 hi == CHOOSE i \in nonblank : \A j \in nonblank : i >= j
             IN  SubSeq(s, lo, hi)

\* str(x) of a text-or-None value: None prints as "None"
PyStr(x) == IF x = NULL THEN <<"N","o","n","e">> ELSE x

\* str(x) of a pandas cell: a missing cell (NaN) prints as "nan"
CellStr(x) == IF x = NULL THEN <<"n","a","n">> ELSE x

\* keys of _VALID_MAP
ValidStatusKeys ==
    { <<"v","a","l","i","d">>, <<"a","c","t","i","v","e">>, <<"o","k">>,
      <<"c","l","e","a","r","e","d">>, <<"1">>, <<"t","r","u","e">>, <<"v">> }

\* every key of _VALID_MAP maps to "valid"
VALID == <<"v","a","l","i","d">>

\* _dept_norm(x): "" and None are falsy
DeptNorm(x) ==
    IF x = NULL \/ x = <<>> THEN <<>>
    ELSE LET u == Upper(x)
         IN  IF StartsWith(u, <<"R","O","L","L","I","N","G">>) THEN <<"R","S">>
             ELSE IF StartsWith(u, <<"S","I","G">>)
                     \/ StartsWith(u, <<"S","I","G","N","A","L">>) THEN <<"S","I","G">>
             ELSE IF StartsWith(u, <<"T","E","L">>)
                     \/ StartsWith(u, <<"T","E","L","E">>) THEN <<"T","E","L">>
             ELSE IF u \in { <<"R","S">>, <<"S","I","G">>, <<"T","E","L">> } THEN u
             ELSE Take(u, 8)

----------------------------------------------------------------------------
(* Calendar and instants *)

\* no instant: Python None / SQL NULL in a datetime position
NoDt == -1

IsLeap(y) == (y % 4 = 0 /\ y % 100 # 0) \/ y % 400 = 0

DaysInMonth(y, m) ==
    IF m = 2 THEN (IF IsLeap(y) THEN 29 ELSE 28)
    ELSE IF m \in {4, 6, 9, 11} THEN 30 ELSE 31

\* the range checks datetime.strptime applies to year, month and day
ValidYMD(y, m, d) ==
    /\ y \in 1..9999
    /\ m \in 1..12
    /\ d >= 1 /\ d <= DaysInMonth(y, m)

\* proleptic Gregorian day count (days since 1970-01-01)
DayNumber(y, m, d) ==
    LET yy  == IF m <= 2 THEN y - 1 ELSE y
        era == yy \div 400
        yoe == yy - era * 400
        mp  == IF m > 2 THEN m - 3 ELSE m + 9
        doy == (153 * mp + 2) \div 5 + d - 1
        doe == yoe * 365 + yoe \div 4 - yoe \div 100 + doy
    IN  era * 146097 + doe - 719468

\* an instant of the reference timezone: midnight of the date plus a tick
Instant(y, m, d, t) == DayNumber(y, m, d) * TicksPerDay + t

\* datetime.date(): the calendar day of an instant
DateOf(inst) == inst \div TicksPerDay

----------------------------------------------------------------------------
(* Raw date values and the date normalizer *)

(* A raw date value is [k, f1, f2, f3, t]:                                 *)
(*   "None"    Python None (also a key missing from a dict read by .get)   *)
(*   "empty"   the text ""                                                 *)
(*   "null"    the text "null"          "NaTstr"  the text "NaT"           *)
(*   "ymd"     the text "f1-f2-f3" with f1 written in four digits          *)
(*   "slash"   the text "f1/f2/f3" with f3 written in four digits          *)
(*   "dash"    the text "f1-f2-f3" with f3 written in four digits          *)
(*   "ymdhm"   the text "f1-f2-f3 HH:MM", HH:MM being tick t of the day    *)
(*   "junk"    a text no date parser accepts, such as "not-a-date"         *)
(*   "ts"      a naive datetime object (pandas Timestamp) f1-f2-f3, tick t *)
(*   "NaT"     the pandas NaT object                                       *)
Raw(k, f1, f2, f3, t) == [k |-> k, f1 |-> f1, f2 |-> f2, f3 |-> f3, t |-> t]

RawNone == Raw("None", 0, 0, 0, 0)
RawEmpty == Raw("empty", 0, 0, 0, 0)
RawJunk == Raw("junk", 0, 0, 0, 0)
RawNaT == Raw("NaT", 0, 0, 0, 0)

\* outcome of _to_dt when it raises instead of returning
DtRaise == -2

\* datetime.strptime(s, fmt) followed by IST.localize; NoDt when it raises
Strptime(v, fmt) ==
    IF fmt = "%Y-%m-%d" THEN
        (IF v.k = "ymd" /\ ValidYMD(v.f1, v.f2, v.f3)
         THEN Instant(v.f1, v.f2, v.f3, 0) ELSE NoDt)
    ELSE IF fmt = "%d/%m/%Y" THEN
        (IF v.k = "slash" /\ ValidYMD(v.f3, v.f2, v.f1)
         THEN Instant(v.f3, v.f2, v.f1, 0) ELSE NoDt)
    ELSE IF fmt = "%m/%d/%Y" THEN
        (IF v.k = "slash" /\ ValidYMD(v.f3, v.f1, v.f2)
         THEN Instant(v.f3, v.f1, v.f2, 0) ELSE NoDt)
    ELSE IF fmt = "%d-%m-%Y" THEN
        (IF v.k = "dash" /\ ValidYMD(v.f3, v.f2, v.f1)
         THEN Instant(v.f3, v.f2, v.f1, 0) ELSE NoDt)
    ELSE NoDt

\* the explicit formats with month-first tried before day-first
ExplicitFormatsMonthFirst == <<"%Y-%m-%d", "%m/%d/%Y", "%d/%m/%Y", "%d-%m-%Y">>

\* the explicit formats of _to_dt, in the order tried
ExplicitFormats == <<"%Y-%m-%d", "%d/%m/%Y", "%m/%d/%Y", "%d-%m-%Y">>

\* pd.to_datetime(text, errors="coerce", dayfirst=...) of one text:
\* the permissive parser; NoDt stands for NaT
Permissive(v, dayfirst) ==
    IF v.k = "ymd" /\ ValidYMD(v.f1, v.f2, v.f3) THEN Instant(v.f1, v.f2, v.f3, 0)
    ELSE IF v.k = "ymdhm" /\ ValidYMD(v.f1, v.f2, v.f3) /\ v.t \in 0..(TicksPerDay - 1)
        THEN Instant(v.f1, v.f2, v.f3, v.t)
    ELSE IF v.k \in {"slash", "dash"} THEN
        LET dmy == ValidYMD(v.f3, v.f2, v.f1)
            mdy == ValidYMD(v.f3, v.f1, v.f2)
        IN  IF dayfirst
            THEN (IF dmy THEN Instant(v.f3, v.f2, v.f1, 0)
                  ELSE IF mdy THEN Instant(v.f3, v.f1, v.f2, 0) ELSE NoDt)
            ELSE (IF mdy THEN Instant(v.f3, v.f1, v.f2, 0)
                  ELSE IF dmy THEN Instant(v.f3, v.f2, v.f1, 0) ELSE NoDt)
    ELSE NoDt

\* first explicit format of fmts, from position i on, that parses v
RECURSIVE FirstExplicit(_, _, _)
FirstExplicit(v, fmts, i) ==
    IF i > Len(fmts) THEN NoDt
    ELSE IF Strptime(v, fmts[i]) # NoDt THEN Strptime(v, fmts[i])
    ELSE FirstExplicit(v, fmts, i + 1)

(* _to_dt(value): an instant, NoDt for None, or DtRaise.  pandas NaT is an *)
(* instance of datetime with tzinfo None, so it takes the "already         *)
(* datetime" branch, and IST.localize(NaT) raises ValueError.              *)
ToDt(v) ==
    IF v.k \in {"None", "empty", "null", "NaTstr"} THEN NoDt
    ELSE IF FirstExplicit(v, ExplicitFormats, 1) # NoDt
        THEN FirstExplicit(v, ExplicitFormats, 1)
    ELSE IF v.k = "ts" THEN Instant(v.f1, v.f2, v.f3, v.t)
    ELSE IF v.k = "NaT" THEN DtRaise
    ELSE Permissive(v, TRUE)

\* the keyword sets _parse_date_series tries, in order
ParseAttempts ==
    << [format |-> "", dayfirst |-> FALSE],
       [format |-> "", dayfirst |-> TRUE],
       [format |-> "%d-%m-%Y", dayfirst |-> FALSE],
       [format |-> "%Y-%m-%d", dayfirst |-> FALSE],
       [format |-> "%d/%m/%Y", dayfirst |-> FALSE],
       [format |-> "%m/%d/%Y", dayfirst |-> FALSE] >>

\* pd.to_datetime(column, errors="coerce", **kw): one instant or NoDt (NaT)
\* per cell; a missing cell (k = "None") is NaT
ToDatetimeColumn(col, kw) ==
    [i \in 1..Len(col) |->
        IF col[i].k = "None" THEN NoDt
        ELSE IF kw.format = "" THEN Permissive(col[i], kw.dayfirst)
        ELSE Strptime(col[i], kw.format)]

RECURSIVE ParseFrom(_, _, _)
ParseFrom(col, attempts, i) ==
    IF i > Len(attempts) THEN ToDatetimeColumn(col, [format |-> "", dayfirst |-> FALSE])
    ELSE IF \E j \in 1..Len(col) : ToDatetimeColumn(col, attempts[i])[j] # NoDt
        THEN ToDatetimeColumn(col, attempts[i])
    ELSE ParseFrom(col, attempts, i + 1)

\* _parse_date_series(s): the column of parsed instants (NoDt = NaT)
ParseDateSeries(col) == ParseFrom(col, ParseAttempts, 1)

\* _to_dt applied to a cell of a parsed column: a Timestamp is a datetime
\* and is localized; NaT raises (see ToDt)
ToDtCell(inst) == IF inst = NoDt THEN DtRaise ELSE inst

\* inverse of DayNumber: <<day, month, year>> of a day count
CivilFromDays(z) ==
    LET zz  == z + 719468
        era == zz \div 146097
        doe == zz - era * 146097
        yoe == (doe - doe \div 1460 + doe \div 36524 - doe \div 146096) \div 365
        doy == doe - (365 * yoe + yoe \div 4 - yoe \div 100)
        mp  == (5 * doy + 2) \div 153
        d   == doy - (153 * mp + 2) \div 5 + 1
        m   == IF mp < 10 THEN mp + 3 ELSE mp - 9
        y   == yoe + era * 400 + (IF m <= 2 THEN 1 ELSE 0)
    IN  <<d, m, y>>

\* strftime("%d/%m/%Y"): the day, month and year fields of the text
StrftimeDMY(inst) == CivilFromDays(DateOf(inst))

\* _to_dt of the naive datetime the DateTime column returns: it matches no
\* explicit format, is a datetime, and is localized to IST without shifting
DbToDt(inst) == IF inst = NoDt THEN NoDt ELSE inst

----------------------------------------------------------------------------
(* The certificates table *)

(* A row is [id, trainset_id, dept, status, valid_from, valid_to, source]; *)
(* created_at and updated_at are server timestamps no operation reads.     *)
Row(id, t, d, st, vf, vt, src) ==
    [id |-> id, trainset_id |-> t, dept |-> d, status |-> st,
     valid_from |-> vf, valid_to |-> vt, source |-> src]

\* the same trainset and department, whatever the expiry
SamePair(r, q) ==
    r.trainset_id = q.trainset_id /\ r.dept = q.dept

\* UniqueConstraint("trainset_id","dept","valid_to")
SameTuple(r, q) ==
    /\ r.trainset_id = q.trainset_id
    /\ r.dept = q.dept
    /\ r.valid_to = q.valid_to

\* a table created without the constraint accepts every set of rows
ConstraintOff(rows) == TRUE

\* the table accepts a set of rows only if no two of them share the tuple
ConstraintOk(rows) == \A r, q \in rows : SameTuple(r, q) => r.id = q.id

SetMax(S) == CHOOSE m \in S : \A x \in S : x <= m

\* INTEGER PRIMARY KEY of SQLite: one more than the largest id in the table
NextId(st) == IF st = {} THEN 1 ELSE SetMax({r.id : r \in st}) + 1

----------------------------------------------------------------------------
(* Reports *)

\* _now(): the clock reading, and its calendar day
Today(nw) == DateOf(nw)

\* a status test that lets every status pass
ValidStatusClauseAny(status) == TRUE

\* _valid_status_clause(status)
ValidStatusClause(status) ==
    IF status = NULL THEN TRUE
    ELSE Lower(PyStr(status)) \in ValidStatusKeys

SetMin(S) == CHOOSE m \in S : \A x \in S : m <= x

\* the oldest expiry of the group instead of the newest
MinTo(st, t, d) ==
    SetMin({q.valid_to : q \in {x \in st : x.trainset_id = t /\ x.dept = d}})

\* func.max(valid_to) ... group_by(trainset_id, dept)
MaxTo(st, t, d) ==
    SetMax({q.valid_to : q \in {x \in st : x.trainset_id = t /\ x.dept = d}})

\* every row of the table, as a query without the join returns
AllRows(st) == st

\* the join of the table with the per-group maximum: the latest rows
LatestRows(st) == {r \in st : r.valid_to = MaxTo(st, r.trainset_id, r.dept)}

\* position of a character in code-point order
AsciiChars ==
    <<" ", "0","1","2","3","4","5","6","7","8","9">> \o UpperChars \o LowerChars

Ord(c) == CHOOSE i \in 1..Len(AsciiChars) : AsciiChars[i] = c

\* a < b for Python str
RECURSIVE TextLess(_, _)
TextLess(a, b) ==
    IF b = <<>> THEN FALSE
    ELSE IF a = <<>> THEN TRUE
    ELSE IF Ord(Head(a)) # Ord(Head(b)) THEN Ord(Head(a)) < Ord(Head(b))
    ELSE TextLess(Tail(a), Tail(b))

\* the whole days of the difference of the two instants
InstantDeltaDays(r, nw) == (DbToDt(r.valid_to) - nw) \div TicksPerDay

\* delta_days = (v_to_dt.date() - today).days
DeltaDays(r, nw) == DateOf(DbToDt(r.valid_to)) - Today(nw)

\* the validity test of expiring_within
ExpiringValid(r, nw) ==
    ValidStatusClause(r.status) \/ (r.status = NULL /\ DbToDt(r.valid_to) >= nw)

\* the validity test of total_active
ActiveValid(r, nw) ==
    (ValidStatusClause(r.status) \/ r.status = NULL) /\ DbToDt(r.valid_to) >= nw

\* the rows that expire exactly days calendar days from today
ExpiringSelOnDay(st, nw, days) ==
    {r \in LatestRows(st) :
        /\ DbToDt(r.valid_to) # NoDt
        /\ ExpiringValid(r, nw)
        /\ DeltaDays(r, nw) = days}

\* the rows expiring_within appends to results
ExpiringSel(st, nw, days) ==
    {r \in LatestRows(st) :
        /\ DbToDt(r.valid_to) # NoDt
        /\ ExpiringValid(r, nw)
        /\ 0 <= DeltaDays(r, nw) /\ DeltaDays(r, nw) <= days}

\* no sort: the rows in the order the query returns them
KeyLessUnsorted(r, q, nw) == r.id < q.id

\* sort key (days_to_expiry, train_id, department); list.sort is stable and
\* the query returns rows in rowid order, so the id breaks ties
KeyLess(r, q, nw) ==
    IF DeltaDays(r, nw) # DeltaDays(q, nw) THEN DeltaDays(r, nw) < DeltaDays(q, nw)
    ELSE IF r.trainset_id # q.trainset_id THEN TextLess(r.trainset_id, q.trainset_id)
    ELSE IF r.dept # q.dept THEN TextLess(r.dept, q.dept)
    ELSE r.id < q.id

RECURSIVE SortRows(_, _)
SortRows(S, nw) ==
    IF S = {} THEN <<>>
    ELSE LET m == CHOOSE r \in S : \A q \in S \ {r} : KeyLess(r, q, nw)
         IN  <<m>> \o SortRows(S \ {m}, nw)

ReportRow(r, nw) ==
    [train_id |-> r.trainset_id, department |-> r.dept,
     expiry_date |-> StrftimeDMY(DbToDt(r.valid_to)),
     days_to_expiry |-> DeltaDays(r, nw)]

\* expiring_within(days) with no path and no df
ExpiringWithin(st, nw, days) ==
    LET sorted == SortRows(ExpiringSel(st, nw, days), nw)
    IN  [i \in 1..Len(sorted) |-> ReportRow(sorted[i], nw)]

\* total_active() with no path and no df
TotalActive(st, nw) ==
    Cardinality({r \in LatestRows(st) : DbToDt(r.valid_to) # NoDt /\ ActiveValid(r, nw)})

----------------------------------------------------------------------------
(* Single-record calls *)

\* value or "" : None and "" are falsy
OrEmpty(x) == IF x = NULL THEN <<>> ELSE x

AddResult(st, kind, id, error) ==
    [store |-> st, ret |-> [kind |-> kind, id |-> id, error |-> error]]

\* the required-fields test without the department
AddRefusedIgnoringDept(trainset_id, dept, valid_to) ==
    trainset_id = <<>> \/ valid_to = NoDt

\* not trainset_id or not dept or valid_to is None
AddRefused(trainset_id, dept, valid_to) ==
    trainset_id = <<>> \/ dept = <<>> \/ valid_to = NoDt

(* add_certificate(record): record is [trainset_id, dept, status,          *)
(* valid_from, valid_to, source], a key the caller left out being NULL     *)
(* (text), RawNone (date) or "" (source).  The INSERT of a row whose tuple *)
(* is already in the table fails at commit with IntegrityError, which the  *)
(* function does not catch.                                                *)
AddOutcome(st, rec) ==
    LET trainset_id == Strip(OrEmpty(rec.trainset_id))
        dept        == DeptNorm(OrEmpty(rec.dept))
        valid_to    == ToDt(rec.valid_to)
        c == Row(NextId(st), trainset_id, dept,
                 IF rec.status # NULL /\ rec.status # <<>> THEN Lower(rec.status) ELSE NULL,
                 ToDt(rec.valid_from), valid_to,
                 IF rec.source # "" THEN rec.source ELSE "api")
    IN  IF AddRefused(trainset_id, dept, valid_to)
        THEN AddResult(st, "error", 0, "trainset_id, dept, valid_to are required")
        ELSE IF ConstraintOk(st \cup {c})
        THEN AddResult(st \cup {c}, "id", c.id, "")
        ELSE AddResult(st, "raise", 0, "IntegrityError")

UpdateResult(st, kind, updated, error) ==
    [store |-> st, ret |-> [kind |-> kind, updated |-> updated, error |-> error]]

\* the refusal, but with the fields assigned before it written to the table
BadExpiryKeepsEarlierFields(st, c, c4) ==
    UpdateResult((st \ {c}) \cup {c4}, "result", 0, "valid_to must be a valid date")

\* the return on an unparseable valid_to: c is the stored row, c4 the
\* session's object after the assignments made so far; nothing is committed
BadExpiry(st, c, c4) ==
    UpdateResult(st, "result", 0, "valid_to must be a valid date")

(* update_certificate(cert_id, patch): patch is [keys, trainset_id, dept,  *)
(* status, valid_from, valid_to], keys being the set of keys present.  The *)
(* assignments change the session's object only; a return before commit    *)
(* closes the session and discards them.                                   *)
UpdateOutcome(st, cert_id, patch) ==
    IF ~ \E r \in st : r.id = cert_id
    THEN UpdateResult(st, "result", 0, "not found")
    ELSE
    LET c  == CHOOSE r \in st : r.id = cert_id
        c1 == IF "trainset_id" \in patch.keys
              THEN [c EXCEPT !.trainset_id = Strip(PyStr(patch.trainset_id))] ELSE c
        c2 == IF "dept" \in patch.keys
              THEN [c1 EXCEPT !.dept = DeptNorm(patch.dept)] ELSE c1
        c3 == IF "status" \in patch.keys
              THEN [c2 EXCEPT !.status =
                        IF Lower(PyStr(patch.status)) = <<>> THEN NULL
                        ELSE Lower(PyStr(patch.status))]
              ELSE c2
        c4 == IF "valid_from" \in patch.keys
              THEN [c3 EXCEPT !.valid_from = ToDt(patch.valid_from)] ELSE c3
        vt == ToDt(patch.valid_to)
        c5 == IF "valid_to" \in patch.keys THEN [c4 EXCEPT !.valid_to = vt] ELSE c4
    IN  IF "valid_to" \in patch.keys /\ vt = NoDt
        THEN BadExpiry(st, c, c4)
        ELSE IF ConstraintOk((st \ {c}) \cup {c5})
        THEN UpdateResult((st \ {c}) \cup {c5}, "result", 1, "")
        ELSE UpdateResult(st, "raise", 0, "IntegrityError")

DeleteResult(st, deleted, error) ==
    [store |-> st, ret |-> [kind |-> "result", deleted |-> deleted, error |-> error]]

\* a delete that reports success whether or not the row was there
DeleteWithoutLookup(st, cert_id) ==
    DeleteResult({r \in st : r.id # cert_id}, 1, "")

\* delete_certificate(cert_id)
DeleteOutcome(st, cert_id) ==
    IF ~ \E r \in st : r.id = cert_id
    THEN DeleteResult(st, 0, "not found")
    ELSE DeleteResult({r \in st : r.id # cert_id}, 1, "")

----------------------------------------------------------------------------
(* CSV ingestion *)

(* A file is [kind, cols, rows]: kind "missing" (no such path), "blank"    *)
(* (zero bytes) or "table"; cols the semantic columns _pick resolves from  *)
(* the normalized header, among "train", "dept", "vto", "vfrom", "stat";   *)
(* rows the data rows [train, dept, vto, vfrom, stat], a text cell being a *)
(* text or NULL (empty cell, NaN), a date cell a raw date text or RawNone. *)
CsvFile(kind, cols, rows) == [kind |-> kind, cols |-> cols, rows |-> rows]

CsvRow(t, d, vto, vfrom, stat) ==
    [train |-> t, dept |-> d, vto |-> vto, vfrom |-> vfrom, stat |-> stat]

UpsertResult(st, kind, imported, skipped, error) ==
    [store |-> st,
     ret |-> [kind |-> kind, imported |-> imported, skipped |-> skipped, error |-> error]]

\* raw[stat].astype(str).str.lower().map(_VALID_MAP).fillna(raw[stat])
StatusCell(x) ==
    IF x = NULL THEN NULL
    ELSE IF Lower(x) \in ValidStatusKeys THEN VALID
    ELSE x

\* raw[dept].map(_dept_norm): NaN is truthy and prints as "nan"
DeptCell(x) == DeptNorm(CellStr(x))

\* the Certificate built from data row i, or "raise" when _to_dt raises
CsvCandidate(f, vtoCol, vfromCol, i) ==
    LET r  == f.rows[i]
        vt == ToDtCell(vtoCol[i])
        vf == IF "vfrom" \in f.cols THEN ToDtCell(vfromCol[i]) ELSE NoDt
    IN  IF vt = DtRaise THEN [kind |-> "raise"]
        ELSE IF vt = NoDt THEN [kind |-> "skip"]
        ELSE IF vf = DtRaise THEN [kind |-> "raise"]
        ELSE [kind |-> "rec",
              rec |-> Row(0, Strip(CellStr(r.train)), Strip(CellStr(DeptCell(r.dept))),
                          IF "stat" \in f.cols
                          THEN Strip(Lower(CellStr(StatusCell(r.stat)))) ELSE NULL,
                          vf, vt, "csv-import")]

(* The row loop from row i on.  db is what the session sees: the table     *)
(* plus the rows added so far, which autoflush INSERTs before each SELECT. *)
RECURSIVE UpsertLoop(_, _, _, _, _, _, _)
UpsertLoop(f, vtoCol, vfromCol, i, db, imported, skipped) ==
    IF i > Len(f.rows)
    THEN [kind |-> "commit", db |-> db, imported |-> imported, skipped |-> skipped]
    ELSE LET cand == CsvCandidate(f, vtoCol, vfromCol, i)
         IN  IF cand.kind = "raise"
             THEN [kind |-> "raise", db |-> db, imported |-> imported, skipped |-> skipped]
             ELSE IF cand.kind = "skip"
             THEN UpsertLoop(f, vtoCol, vfromCol, i + 1, db, imported, skipped + 1)
             ELSE IF \E q \in db : SameTuple(q, cand.rec)
             THEN UpsertLoop(f, vtoCol, vfromCol, i + 1, db, imported, skipped + 1)
             ELSE UpsertLoop(f, vtoCol, vfromCol, i + 1,
                             db \cup {[cand.rec EXCEPT !.id = NextId(db)]},
                             imported + 1, skipped)

(* upsert_from_csv(path).  pd.read_csv raises EmptyDataError on a file     *)
(* of zero bytes under every encoding, and the last read is not guarded.   *)
(* An exception inside the session block leaves it without commit.         *)
UpsertOutcome(st, f) ==
    IF f.kind = "missing" THEN UpsertResult(st, "result", 0, 0, "file not found")
    ELSE IF f.kind = "blank" THEN UpsertResult(st, "raise", 0, 0, "EmptyDataError")
    ELSE IF f.rows = <<>> THEN UpsertResult(st, "result", 0, 0, "csv empty")
    ELSE IF ~ ({"train", "dept", "vto"} \subseteq f.cols)
        THEN UpsertResult(st, "result", 0, 0, "required columns missing")
    ELSE
    LET vfromCol == IF "vfrom" \in f.cols
                    THEN ParseDateSeries([i \in 1..Len(f.rows) |-> f.rows[i].vfrom])
                    ELSE <<>>
        vtoCol   == ParseDateSeries([i \in 1..Len(f.rows) |-> f.rows[i].vto])
        run      == UpsertLoop(f, vtoCol, vfromCol, 1, st, 0, 0)
    IN  IF run.kind = "raise" THEN UpsertResult(st, "raise", 0, 0, "ValueError")
        ELSE UpsertResult(run.db, "result", run.imported, run.skipped, "")

----------------------------------------------------------------------------
(* The state machine: one action per call of the public API *)

Result(op, arg, ret) == [op |-> op, arg |-> arg, ret |-> ret]

NoResult == Result("none", 0, [kind |-> "none"])

\* the first calendar day of the model's clock: 2 February 2024
Today0 == DayNumber(2024, 2, 2)

\* last clock reading of the model
LastNow == (Today0 + MaxDays) * TicksPerDay - 1

\* no insert takes the table past the model's last identifier
WithinIds(st) == \A r \in st : r.id <= MaxId

\* the callers that may run upsert_from_csv at the same time
Writers == {1, 2}

(* The session of one upsert_from_csv call: phase "new" (not called yet),  *)
(* "loop" (inside the with block) or "done" (returned or raised); f the    *)
(* file, i the next data row; pending the object db.add put in the session *)
(* and no statement has flushed yet; ins the rows its open transaction has *)
(* INSERTed and not committed; the two counters; ret what the call         *)
(* returned.                                                               *)
Session(phase, f, i, pending, ins, imported, skipped, ret) ==
    [phase |-> phase, f |-> f, i |-> i, pending |-> pending, ins |-> ins,
     imported |-> imported, skipped |-> skipped, ret |-> ret]

NoSession ==
    Session("new", CsvFile("missing", {}, <<>>), 0, {}, {}, 0, 0,
            UpsertResult({}, "none", 0, 0, "").ret)

Init ==
    /\ store = {}
    /\ now = Today0 * TicksPerDay
    /\ result = NoResult
    /\ sessions = [w \in Writers |-> NoSession]

UpsertFromCsv(f) ==
    LET o == UpsertOutcome(store, f)
    IN  /\ WithinIds(o.store)
        /\ store' = o.store
        /\ result' = Result("upsert_from_csv", f.kind, o.ret)
        /\ UNCHANGED <<now, sessions>>

\* expiring_within(days), as the HTTP layer calls it: no path and no df
ExpiringWithinCall(days) ==
    /\ result' = Result("expiring_within", days,
                        [kind |-> "rows", rows |-> ExpiringWithin(store, now, days)])
    /\ UNCHANGED <<store, now, sessions>>

\* total_active(), as the HTTP layer calls it: no path and no df
TotalActiveCall ==
    /\ result' = Result("total_active", 0,
                        [kind |-> "count", count |-> TotalActive(store, now)])
    /\ UNCHANGED <<store, now, sessions>>

AddCertificate(rec) ==
    LET o == AddOutcome(store, rec)
    IN  /\ WithinIds(o.store)
        /\ store' = o.store
        /\ result' = Result("add_certificate", 0, o.ret)
        /\ UNCHANGED <<now, sessions>>

UpdateCertificate(cert_id, patch) ==
    LET o == UpdateOutcome(store, cert_id, patch)
    IN  /\ store' = o.store
        /\ result' = Result("update_certificate", patch.keys, o.ret)
        /\ UNCHANGED <<now, sessions>>

DeleteCertificate(cert_id) ==
    LET o == DeleteOutcome(store, cert_id)
    IN  /\ store' = o.store
        /\ result' = Result("delete_certificate", cert_id, o.ret)
        /\ UNCHANGED <<now, sessions>>

\* time passes between calls
Tick ==
    /\ now < LastNow
    /\ now' = now + 1
    /\ result' = NoResult
    /\ UNCHANGED <<store, sessions>>

----------------------------------------------------------------------------
(* Inputs *)

T1 == <<"T","1">>
T2 == <<"T","2">>
RollingStock == <<"R","o","l","l","i","n","g"," ","S","t","o","c","k">>
Active == <<"A","c","t","i","v","e">>

\* the last tick of a day
Noon == TicksPerDay - 1

\* "2024-02-01", "02/02/2024", "2024-02-03 12:00": yesterday, today, tomorrow noon
TextYesterday == Raw("ymd", 2024, 2, 1, 0)
TextToday == Raw("slash", 2, 2, 2024, 0)
TextTomorrowNoon == Raw("ymdhm", 2024, 2, 3, Noon)
\* "2024-02-02 12:00": today noon
TextTodayNoon == Raw("ymdhm", 2024, 2, 2, Noon)
\* "02/03/2024": in a CSV column the permissive parser reads 3 February
CellTomorrow == Raw("slash", 2, 3, 2024, 0)
\* "03/02/2024": tomorrow read day first, 2 March read month first
TextTomorrow == Raw("slash", 3, 2, 2024, 0)

\* a patch with the given keys; the fields of absent keys are not read
Patch(keys, t, d, st, vf, vt) ==
    [keys |-> keys, trainset_id |-> t, dept |-> d, status |-> st,
     valid_from |-> vf, valid_to |-> vt]

AddRecord(t, d, st, vf, vt, src) ==
    [trainset_id |-> t, dept |-> d, status |-> st,
     valid_from |-> vf, valid_to |-> vt, source |-> src]

\* identifiers handed to update_certificate and delete_certificate
CertIds == 1..(MaxId + 1)

\* the days argument of expiring_within
DaysArgs == -1..2

----------------------------------------------------------------------------
(* Spec: the single-record calls over a table that ingestion also feeds *)

AddRecords ==
    { AddRecord(t, d, NULL, RawNone, vt, "") :
        t \in {T1, NULL},
        d \in {RollingStock, <<"s","i","g">>},
        vt \in {TextToday, TextTomorrowNoon, RawJunk} }

Patches ==
    { Patch({"status"}, NULL, NULL, <<>>, RawNone, RawNone),
      Patch({"trainset_id"}, <<" ","T","2"," ">>, NULL, NULL, RawNone, RawNone),
      Patch({"valid_to"}, NULL, NULL, NULL, RawNone, RawJunk),
      Patch({"valid_to"}, NULL, NULL, NULL, RawNone, TextToday),
      Patch({"dept", "status", "valid_from", "valid_to"}, NULL, <<"s","i","g","n","a","l">>,
            <<"O","K">>, TextYesterday, RawJunk),
      Patch({"dept", "status", "valid_from", "valid_to"}, NULL, <<"s","i","g","n","a","l">>,
            <<"O","K">>, TextYesterday, TextTodayNoon) }

Files ==
    { CsvFile("table", {"train", "dept", "vto"},
              <<CsvRow(T1, RollingStock, TextToday, RawNone, NULL)>>),
      CsvFile("table", {"train", "dept", "vto"},
              <<CsvRow(T1, RollingStock, TextToday, RawNone, NULL),
                CsvRow(T1, RollingStock, CellTomorrow, RawNone, NULL)>>),
      CsvFile("missing", {}, <<>>) }

Next ==
    \/ \E f \in Files : UpsertFromCsv(f)
    \/ \E days \in 0..1 : ExpiringWithinCall(days)
    \/ TotalActiveCall
    \/ \E rec \in AddRecords : AddCertificate(rec)
    \/ \E cert_id \in CertIds, patch \in Patches : UpdateCertificate(cert_id, patch)
    \/ \E cert_id \in CertIds : DeleteCertificate(cert_id)
    \/ Tick

Spec == Init /\ [][Next]_vars

----------------------------------------------------------------------------
(* SpecReport: the reports over every mix of status and expiry *)

ReportRecords ==
    { AddRecord(T1, d, st, RawNone, vt, "") :
        d \in {RollingStock, <<"s","i","g">>},
        st \in {NULL, Active, <<"r","e","v","o","k","e","d">>},
        vt \in {TextYesterday, TextToday, TextTomorrowNoon} }
    \cup { AddRecord(T2, <<"s","i","g">>, NULL, RawNone, TextTomorrow, "") }

ReportPatches == { Patch({"valid_to"}, NULL, NULL, NULL, RawNone, TextYesterday) }

ReportFiles ==
    { CsvFile("table", {"train", "dept", "vto"},
              <<CsvRow(T1, RollingStock, CellTomorrow, RawNone, NULL)>>) }

NextReport ==
    \/ \E f \in ReportFiles : UpsertFromCsv(f)
    \/ \E days \in DaysArgs : ExpiringWithinCall(days)
    \/ TotalActiveCall
    \/ \E rec \in ReportRecords : AddCertificate(rec)
    \/ \E cert_id \in CertIds, patch \in ReportPatches : UpdateCertificate(cert_id, patch)
    \/ \E cert_id \in CertIds : DeleteCertificate(cert_id)
    \/ Tick

SpecReport == Init /\ [][NextReport]_vars

----------------------------------------------------------------------------
(* SpecIngest: ingestion of every small file *)

IngestRows ==
    { CsvRow(T1, RollingStock, vto, RawNone, st) :
        vto \in {TextToday, CellTomorrow, RawJunk},
        st \in {NULL, <<"O","K">>} }

\* every file of at most MaxFileRows rows, with and without a status
\* column, then a missing file, a file of zero bytes and one with no expiry column
IngestFiles ==
    { CsvFile("table", cols, rows) :
        cols \in { {"train", "dept", "vto"}, {"train", "dept", "vto", "stat"} },
        rows \in UNION { [1..n -> IngestRows] : n \in 0..MaxFileRows } }
    \cup { CsvFile("missing", {}, <<>>), CsvFile("blank", {}, <<>>),
           CsvFile("table", {"train", "dept"},
                   <<CsvRow(T1, RollingStock, TextToday, RawNone, NULL)>>) }

IngestRecords == { AddRecord(T1, RollingStock, NULL, RawNone, TextToday, "") }

IngestPatches == { Patch({"dept"}, NULL, <<"s","i","g">>, NULL, RawNone, RawNone) }

NextIngest ==
    \/ \E f \in IngestFiles : UpsertFromCsv(f)
    \/ \E days \in 0..1 : ExpiringWithinCall(days)
    \/ TotalActiveCall
    \/ \E rec \in IngestRecords : AddCertificate(rec)
    \/ \E cert_id \in CertIds, patch \in IngestPatches : UpdateCertificate(cert_id, patch)
    \/ \E cert_id \in CertIds : DeleteCertificate(cert_id)
    \/ Tick

SpecIngest == Init /\ [][NextIngest]_vars

----------------------------------------------------------------------------
(* SpecTx: upsert_from_csv statement by statement, two callers at a time.  *)
(* The database is the default SQLite file.  A connection reads the        *)
(* committed table plus what its own open transaction has inserted; the    *)
(* first INSERT of a transaction takes the write lock of the file, which   *)
(* it holds until commit or rollback; an INSERT that finds the lock taken  *)
(* waits, and raises OperationalError ("database is locked") when the      *)
(* wait outlasts the driver's timeout.                                     *)

\* the file fails a check made before the session is opened
PreLoopReturn(f) ==
    f.kind # "table" \/ f.rows = <<>> \/ ~ ({"train", "dept", "vto"} \subseteq f.cols)

\* the table as the statements of session s read it
View(st, s) == st \cup s.ins

\* no other session holds the write lock
LockFree(w) == \A v \in Writers \ {w} : sessions[v].ins = {}

\* a database in which every INSERT is committed on its own
AfterInsertAutocommit(st, ins) == st \cup ins

\* the committed table after an INSERT of the session: the row stays in
\* the open transaction, db.commit() being called once, after the loop
AfterInsert(st, ins) == st

\* autoflush: the INSERT of the pending object, which the UNIQUE constraint
\* refuses ("raise") when the table the transaction reads has its tuple
Flush(st, s) ==
    IF s.pending = {} THEN [kind |-> "ok", ins |-> s.ins]
    ELSE LET rec == CHOOSE r \in s.pending : TRUE
             row == [rec EXCEPT !.id = NextId(View(st, s))]
         IN  IF ConstraintOk(View(st, s) \cup {row})
             THEN [kind |-> "ok", ins |-> s.ins \cup {row}]
             ELSE [kind |-> "raise", ins |-> s.ins]

\* the session after the call ended: the with block closes it, rolling
\* back what was not committed
Ended(s, kind, error) ==
    [s EXCEPT !.phase = "done", !.pending = {}, !.ins = {},
              !.ret = UpsertResult({}, kind,
                                   IF kind = "result" THEN s.imported ELSE 0,
                                   IF kind = "result" THEN s.skipped ELSE 0,
                                   error).ret]

\* the call up to the with block
TxBegin(w, f) ==
    /\ sessions[w].phase = "new"
    /\ sessions' = [sessions EXCEPT ![w] =
            IF PreLoopReturn(f)
            THEN Session("done", f, 0, {}, {}, 0, 0, UpsertOutcome(store, f).ret)
            ELSE Session("loop", f, 1, {}, {}, 0, 0, NoSession.ret)]
    /\ UNCHANGED <<store, now, result>>

\* one pass of the row loop: _to_dt of the cell, then the SELECT, which
\* first flushes the object the previous pass added, then db.add
TxRow(w) ==
    LET s    == sessions[w]
        f    == s.f
        vtoCol   == ParseDateSeries([j \in 1..Len(f.rows) |-> f.rows[j].vto])
        vfromCol == IF "vfrom" \in f.cols
                    THEN ParseDateSeries([j \in 1..Len(f.rows) |-> f.rows[j].vfrom])
                    ELSE <<>>
        cand == CsvCandidate(f, vtoCol, vfromCol, s.i)
        fl   == Flush(store, s)
    IN  /\ s.phase = "loop"
        /\ s.i <= Len(f.rows)
        /\ IF cand.kind = "raise"
           THEN /\ sessions' = [sessions EXCEPT ![w] = Ended(s, "raise", "ValueError")]
                /\ store' = store
           ELSE IF cand.kind = "skip"
           THEN /\ sessions' = [sessions EXCEPT ![w] =
                        [s EXCEPT !.i = s.i + 1, !.skipped = s.skipped + 1]]
                /\ store' = store
           ELSE /\ s.pending = {} \/ LockFree(w)
                /\ IF fl.kind = "raise"
                   THEN /\ sessions' = [sessions EXCEPT ![w] =
                                Ended(s, "raise", "IntegrityError")]
                        /\ store' = store
                   ELSE /\ store' = AfterInsert(store, fl.ins)
                        /\ sessions' = [sessions EXCEPT ![w] =
                            IF \E q \in store \cup fl.ins : SameTuple(q, cand.rec)
                            THEN [s EXCEPT !.i = s.i + 1, !.pending = {}, !.ins = fl.ins,
                                           !.skipped = s.skipped + 1]
                            ELSE [s EXCEPT !.i = s.i + 1, !.pending = {cand.rec},
                                           !.ins = fl.ins,
                                           !.imported = s.imported + 1]]
        /\ UNCHANGED <<now, result>>

\* db.commit() after the loop: flush of the last object, then COMMIT
TxCommit(w) ==
    LET s  == sessions[w]
        fl == Flush(store, s)
    IN  /\ s.phase = "loop"
        /\ s.i > Len(s.f.rows)
        /\ s.pending = {} \/ LockFree(w)
        /\ IF fl.kind = "raise"
           THEN /\ sessions' = [sessions EXCEPT ![w] = Ended(s, "raise", "IntegrityError")]
                /\ store' = store
           ELSE /\ sessions' = [sessions EXCEPT ![w] = Ended(s, "result", "")]
                /\ store' = store \cup fl.ins
        /\ UNCHANGED <<now, result>>

\* the INSERT of the pending object waited for the write lock too long
TxLockTimeout(w) ==
    LET s == sessions[w]
    IN  /\ s.phase = "loop"
        /\ s.pending # {}
        /\ ~ LockFree(w)
        /\ sessions' = [sessions EXCEPT ![w] = Ended(s, "raise", "OperationalError")]
        /\ UNCHANGED <<store, now, result>>

\* (T1, Rolling Stock, 02/02/2024), (T1, Rolling Stock, 02/03/2024),
\* (T1, sig, 02/02/2024) and a row with no readable expiry
RowX == CsvRow(T1, RollingStock, TextToday, RawNone, NULL)
RowY == CsvRow(T1, RollingStock, CellTomorrow, RawNone, NULL)
RowZ == CsvRow(T1, <<"s","i","g">>, TextToday, RawNone, NULL)
RowJunk == CsvRow(T1, RollingStock, RawJunk, RawNone, NULL)

\* two files that share a row, and one that fails on its third row
TxFiles ==
    { CsvFile("table", {"train", "dept", "vto"}, <<RowX, RowY>>),
      CsvFile("table", {"train", "dept", "vto"}, <<RowX, RowZ>>),
      CsvFile("table", {"train", "dept", "vto"}, <<RowX, RowY, RowJunk>>) }

NextTx ==
    \/ \E w \in Writers, f \in TxFiles : TxBegin(w, f)
    \/ \E w \in Writers : TxRow(w)
    \/ \E w \in Writers : TxCommit(w)
    \/ \E w \in Writers : TxLockTimeout(w)
    \/ ExpiringWithinCall(1)
    \/ TotalActiveCall

SpecTx == Init /\ [][NextTx]_vars

----------------------------------------------------------------------------
(* Inputs the properties quantify over *)

\* expiry texts that normalize to no instant: "not-a-date", "", None
\* and "31/02/2024"
UnparseableTexts == { RawJunk, RawEmpty, RawNone, Raw("slash", 31, 2, 2024, 0) }

\* expiry texts that normalize to an instant; "02/13/2024" only month-first
ParseableTexts == { TextToday, TextTomorrowNoon, Raw("slash", 2, 13, 2024, 0) }

AddInputs ==
    { AddRecord(t, d, st, RawNone, vt, "") :
        t \in {T1, NULL, <<>>, <<" ">>},
        d \in {RollingStock, <<"s","i","g">>, NULL, <<>>},
        st \in {NULL},
        vt \in UnparseableTexts \cup ParseableTexts }

PatchKeys == {"trainset_id", "dept", "status", "valid_from", "valid_to"}

PatchInputs ==
    { Patch(keys, <<" ","T","2"," ">>, <<"s","i","g","n","a","l">>, <<"O","K">>,
            TextYesterday, vt) :
        keys \in SUBSET PatchKeys,
        vt \in {RawJunk, TextToday} }

Ids(st) == {r.id : r \in st}

----------------------------------------------------------------------------
(* C1 *)

NoSharedTuple(rows) ==
    \A r, q \in rows :
        (r.trainset_id = q.trainset_id /\ r.dept = q.dept /\ r.valid_to = q.valid_to)
            => r = q

----------------------------------------------------------------------------
(* C2 *)

\* files that pass the checks before the row loop
Ingestible(f) ==
    f.kind = "table" /\ f.rows # <<>> /\ {"train", "dept", "vto"} \subseteq f.cols

\* number of rows of f whose expiry cell the column parse turned into an instant
ParsedRows(f) ==
    Cardinality({i \in 1..Len(f.rows) :
                    ParseDateSeries([j \in 1..Len(f.rows) |-> f.rows[j].vto])[i] # NoDt})

\* C2: ingesting a file a second time right after the first returns
\* imported = 0 and skipped = the number of rows whose expiry parsed, and
\* leaves the table as the first call left it.
C2_ReingestSkipsParsedRows ==
    \A f \in IngestFiles :
        Ingestible(f) =>
            LET first  == UpsertOutcome(store, f)
                second == UpsertOutcome(first.store, f)
            IN  /\ second.ret.kind = "result"
                /\ second.ret.imported = 0
                /\ second.ret.skipped = ParsedRows(f)
                /\ second.store = first.store

\* the same for the files the first call ingests: where every expiry parses
C2_ReingestOfCleanFile ==
    \A f \in IngestFiles :
        (Ingestible(f) /\ ParsedRows(f) = Len(f.rows)) =>
            LET first  == UpsertOutcome(store, f)
                second == UpsertOutcome(first.store, f)
            IN  /\ second.ret.kind = "result"
                /\ second.ret.imported = 0
                /\ second.ret.skipped = ParsedRows(f)
                /\ second.store = first.store

----------------------------------------------------------------------------
(* C3 to C7: the reports *)

\* r has the largest valid_to among the rows of its (trainset_id, dept)
IsMaxOfPair(r, st) ==
    \A q \in st :
        (q.trainset_id = r.trainset_id /\ q.dept = r.dept) => q.valid_to <= r.valid_to

\* the (trainset_id, dept) pairs present in the table
Pairs(st) == {<<r.trainset_id, r.dept>> : r \in st}

\* the rows of the table a report row can have come from
RowsBehind(row, st) ==
    {r \in st : r.trainset_id = row.train_id /\ r.dept = row.department}

ReportedRows == result.ret.rows

\* "currently valid" as the specification words it
CurrentlyValid(r, nw) ==
    \/ r.status # NULL /\ Lower(r.status) \in ValidStatusKeys
    \/ r.status = NULL /\ r.valid_to >= nw

\* C3: the record both reports evaluate for a pair is the one with the
\* largest valid_to of the pair, whatever the order of the inserts, updates
\* and deletes that built the table.
C3_LatestIsMaxValidTo ==
    /\ LatestRows(store) = {r \in store : IsMaxOfPair(r, store)}
    /\ result.op = "expiring_within" =>
        \A i \in 1..Len(ReportedRows) :
            \E r \in RowsBehind(ReportedRows[i], store) :
                /\ IsMaxOfPair(r, store)
                /\ ReportedRows[i].expiry_date = StrftimeDMY(r.valid_to)
    /\ result.op = "total_active" =>
        result.ret.count =
            Cardinality({r \in store : IsMaxOfPair(r, store) /\ ActiveValid(r, now)})

\* a pair whose older record was inserted last has just been reported
C3_Witness ==
    /\ result.op = "expiring_within"
    /\ Len(ReportedRows) >= 1
    /\ \E r, q \in store :
        /\ r.trainset_id = q.trainset_id /\ r.dept = q.dept
        /\ r.id > q.id /\ r.valid_to < q.valid_to
        /\ \E i \in 1..Len(ReportedRows) : q \in RowsBehind(ReportedRows[i], store)

\* C4: expiring_within reports a pair only if its latest record is
\* currently valid: status in the synonym set, or status absent and
\* valid_to not before now.
C4_ReportedOnlyIfCurrentlyValid ==
    result.op = "expiring_within" =>
        \A i \in 1..Len(ReportedRows) :
            \A r \in RowsBehind(ReportedRows[i], store) :
                IsMaxOfPair(r, store) => CurrentlyValid(r, now)

\* C5: days_to_expiry is the date of valid_to minus today's date and lies
\* in 0..N; a currently valid latest record expiring tomorrow, at any time
\* of day, is reported with days_to_expiry = 1 exactly when N >= 1.
C5_CalendarDayWindow ==
    result.op = "expiring_within" =>
        /\ \A i \in 1..Len(ReportedRows) :
            /\ ReportedRows[i].days_to_expiry >= 0
            /\ ReportedRows[i].days_to_expiry <= result.arg
            /\ \E r \in RowsBehind(ReportedRows[i], store) :
                /\ IsMaxOfPair(r, store)
                /\ ReportedRows[i].days_to_expiry
                        = (r.valid_to \div TicksPerDay) - (now \div TicksPerDay)
        /\ \A r \in store :
            (/\ IsMaxOfPair(r, store)
             /\ CurrentlyValid(r, now)
             /\ r.valid_to \div TicksPerDay = (now \div TicksPerDay) + 1)
            => (result.arg >= 1 <=>
                    \E i \in 1..Len(ReportedRows) :
                        /\ r \in RowsBehind(ReportedRows[i], store)
                        /\ ReportedRows[i].days_to_expiry = 1)

\* expiring_within(1) has just reported a record expiring tomorrow after
\* midnight, asked later than midnight today
C5_Witness ==
    /\ result.op = "expiring_within"
    /\ result.arg = 1
    /\ now % TicksPerDay # 0
    /\ \E i \in 1..Len(ReportedRows) :
        /\ ReportedRows[i].days_to_expiry = 1
        /\ \E r \in RowsBehind(ReportedRows[i], store) : r.valid_to % TicksPerDay # 0

\* C6: total_active counts the pairs whose latest record passes the
\* validity test of expiring_within (status in the synonym set, or status
\* absent and valid_to not before now), so every pair expiring_within
\* reports is counted.
C6_TotalActiveSameTest ==
    result.op = "total_active" =>
        /\ result.ret.count =
            Cardinality({r \in store : IsMaxOfPair(r, store) /\ CurrentlyValid(r, now)})
        /\ \A days \in DaysArgs :
            \A i \in 1..Len(ExpiringWithin(store, now, days)) :
                \E r \in RowsBehind(ExpiringWithin(store, now, days)[i], store) :
                    IsMaxOfPair(r, store) /\ ActiveValid(r, now)

\* C7: a pair counts at most once in total_active and gives at most one
\* row of expiring_within, however many records it has; a table holding
\* only the history of one pair, without status, whose latest record has
\* not expired counts 1.
C7_OnePerPair ==
    /\ result.op = "total_active" =>
        /\ result.ret.count <= Cardinality(Pairs(store))
        /\ (/\ Cardinality(Pairs(store)) = 1
            /\ \A r \in store : r.status = NULL
            /\ \E r \in store : r.valid_to >= now)
           => result.ret.count = 1
    /\ result.op = "expiring_within" =>
        \A i, j \in 1..Len(ReportedRows) :
            (/\ ReportedRows[i].train_id = ReportedRows[j].train_id
             /\ ReportedRows[i].department = ReportedRows[j].department)
            => i = j

\* total_active has just counted 1 over a pair with an expired record and
\* a record still to expire, neither with a status
C7_Witness ==
    /\ result.op = "total_active"
    /\ result.ret.count = 1
    /\ Cardinality(store) = 2
    /\ Cardinality(Pairs(store)) = 1
    /\ \A r \in store : r.status = NULL
    /\ \E r, q \in store : r.valid_to < now /\ q.valid_to >= now

----------------------------------------------------------------------------
(* C8 to C10: the single-record calls *)

\* C8: a patch whose valid_to does not normalize is refused with
\* {updated: 0, error} and changes no field of the record, whatever other
\* keys it carries.
C8_BadExpiryPatchChangesNothing ==
    \A cert_id \in Ids(store), patch \in PatchInputs :
        ("valid_to" \in patch.keys /\ patch.valid_to \in UnparseableTexts) =>
            LET o == UpdateOutcome(store, cert_id, patch)
            IN  /\ o.ret.kind = "result"
                /\ o.ret.updated = 0
                /\ o.ret.error # ""
                /\ o.store = store

\* such a patch, carrying other keys too, has just been refused
C8_Witness ==
    /\ result.op = "update_certificate"
    /\ result.ret.error = "valid_to must be a valid date"
    /\ {"valid_to", "status", "dept"} \subseteq result.arg
    /\ store # {}

\* the record lacks a required field, as the claim lists them
LacksRequired(rec) ==
    \/ rec.trainset_id \in {NULL, <<>>}
    \/ rec.dept \in {NULL, <<>>}
    \/ rec.valid_to \in UnparseableTexts

\* o persisted exactly one new record over st and returned its id
PersistedOne(st, o) ==
    /\ o.ret.kind = "id"
    /\ st \subseteq o.store
    /\ Cardinality(o.store) = Cardinality(st) + 1
    /\ o.ret.id \notin Ids(st)
    /\ \E r \in o.store \ st : r.id = o.ret.id

\* C9 as claimed: a record lacking a required field gets {error} and no
\* row; every other record is persisted as exactly one new row whose id
\* is returned.
C9_AddPersistsUnlessFieldMissing ==
    \A rec \in AddInputs :
        LET o == AddOutcome(store, rec)
        IN  IF LacksRequired(rec)
            THEN o.ret.kind = "error" /\ o.store = store
            ELSE PersistedOne(store, o)

\* C9 as the code has it: blank trainset_id counts as empty, and a record
\* whose (trainset_id, dept, valid_to) is already in the table persists
\* nothing either.
C9_AddPersistsUnlessMissingOrDuplicate ==
    \A rec \in AddInputs :
        LET o == AddOutcome(store, rec)
        IN  IF LacksRequired(rec) \/ Strip(OrEmpty(rec.trainset_id)) = <<>>
            THEN o.ret.kind = "error" /\ o.store = store
            ELSE IF \E q \in store :
                        /\ q.trainset_id = Strip(rec.trainset_id)
                        /\ q.dept = DeptNorm(rec.dept)
                        /\ q.valid_to = ToDt(rec.valid_to)
            THEN o.ret.kind # "id" /\ o.store = store
            ELSE PersistedOne(store, o)

\* an add without usable expiry has just been refused over a table that
\* already holds a record
C9_Witness ==
    /\ result.op = "add_certificate"
    /\ result.ret.kind = "error"
    /\ store # {}

\* C10: update and delete of an identifier not in the table return
\* "not found" with updated = 0 / deleted = 0 and change nothing; delete of
\* an identifier in the table returns deleted = 1 and removes that row only.
C10_NotFoundAndDelete ==
    \A cert_id \in CertIds :
        LET d == DeleteOutcome(store, cert_id)
        IN  IF cert_id \notin Ids(store)
            THEN /\ d.ret.deleted = 0 /\ d.ret.error = "not found" /\ d.store = store
                 /\ \A patch \in PatchInputs :
                        LET u == UpdateOutcome(store, cert_id, patch)
                        IN  /\ u.ret.kind = "result"
                            /\ u.ret.updated = 0
                            /\ u.ret.error = "not found"
                            /\ u.store = store
            ELSE /\ d.ret.deleted = 1 /\ d.ret.error = ""
                 /\ d.store = {r \in store : r.id # cert_id}
                 /\ Cardinality(d.store) = Cardinality(store) - 1

\* a delete has just removed one of two records
C10_Witness ==
    /\ result.op = "delete_certificate"
    /\ result.ret.deleted = 1
    /\ Cardinality(store) = 1
    /\ result.arg \notin Ids(store)

----------------------------------------------------------------------------
(* C11 *)

\* patches that move a record's expiry only
ExpiryPatches ==
    { Patch({"valid_to"}, NULL, NULL, NULL, RawNone, vt) : vt \in ParseableTexts }

\* C11: an add whose (trainset_id, dept, valid_to) is already in the table,
\* and an update that moves a record's expiry onto that of another record of
\* the same trainset and department, return a result object ({error},
\* {updated: 0, error}) instead of raising, and change nothing.
C11_ConstraintViolationIsResult ==
    /\ \A rec \in AddInputs :
            LET o == AddOutcome(store, rec)
            IN  (\E q \in store :
                    /\ q.trainset_id = Strip(OrEmpty(rec.trainset_id))
                    /\ q.dept = DeptNorm(OrEmpty(rec.dept))
                    /\ q.valid_to = ToDt(rec.valid_to))
                => (o.ret.kind = "error" /\ o.store = store)
    /\ \A c \in store, patch \in ExpiryPatches :
            LET u == UpdateOutcome(store, c.id, patch)
            IN  (\E q \in store \ {c} :
                    /\ q.trainset_id = c.trainset_id
                    /\ q.dept = c.dept
                    /\ q.valid_to = ToDt(patch.valid_to))
                => (/\ u.ret.kind = "result"
                    /\ u.ret.updated = 0
                    /\ u.ret.error # ""
                    /\ u.store = store)

----------------------------------------------------------------------------
(* C12 *)

\* the callers whose call ends in this step
Ending(w) == sessions[w].phase # "done" /\ sessions'[w].phase = "done"

\* C12: the committed table, which is all a reader sees, changes only in
\* the step that ends an upsert_from_csv call with a result, and then by
\* exactly the rows the call counted as imported, all at once; a call that
\* ends by raising leaves it as it was, whatever the call had inserted.
C12_BatchIsAtomic ==
    [][ /\ store' # store =>
                \E w \in Writers : Ending(w) /\ sessions'[w].ret.kind = "result"
        /\ \A w \in Writers :
                Ending(w) =>
                    /\ store \subseteq store'
                    /\ Cardinality(store' \ store) = sessions'[w].ret.imported
                    /\ sessions'[w].ret.kind = "raise" => store' = store
        /\ \A w \in Writers :
                (sessions'[w].ins \cup sessions'[w].pending) \cap store' = {}
      ]_vars

\* a reader has found nothing while a call that has inserted one row and
\* added a second has committed neither
C12_Witness ==
    /\ result.op = "expiring_within"
    /\ result.ret.rows = <<>>
    /\ store = {}
    /\ \E w \in Writers :
            /\ sessions[w].phase = "loop"
            /\ sessions[w].ins # {}
            /\ sessions[w].imported = 2

----------------------------------------------------------------------------
(* C13 *)

\* the data rows of the files the callers ingested
RowsAsked == UNION { {sessions[w].f.rows[i] : i \in 1..Len(sessions[w].f.rows)} : w \in Writers }

\* C13: when two callers have ingested, at the same time, files whose rows
\* all parse and that share rows, each call (one ended by the database's
\* lock timeout aside) has returned a normal result counting every row
\* once, and the table holds each distinct row of the two files exactly
\* once.
C13_OverlappingWritersBothReturn ==
    (\A w \in Writers :
        /\ sessions[w].phase = "done"
        /\ ~ PreLoopReturn(sessions[w].f)
        /\ ParsedRows(sessions[w].f) = Len(sessions[w].f.rows)
        /\ sessions[w].ret.error # "OperationalError")
    => /\ \A w \in Writers :
            /\ sessions[w].ret.kind = "result"
            /\ sessions[w].ret.imported + sessions[w].ret.skipped = Len(sessions[w].f.rows)
       /\ NoSharedTuple(store)
       /\ Cardinality(store) = Cardinality(RowsAsked)

----------------------------------------------------------------------------
(* C14 *)

\* C14: upsert_from_csv leaves every record of the table in it, unchanged
\* in all its fields; what it adds are new records with new identifiers;
\* and after a call that returned its counts every row of the file has
\* exactly one record with its (trainset_id, dept, valid_to), so that a
\* row matching a record is not merged into it and a row with another
\* expiry for a known trainset and department stands alongside the old one.
C14_IngestionKeepsRecords ==
    \A f \in IngestFiles :
        LET o   == UpsertOutcome(store, f)
            vto == ParseDateSeries([j \in 1..Len(f.rows) |-> f.rows[j].vto])
        IN  /\ store \subseteq o.store
            /\ \A r \in o.store \ store : r.id \notin Ids(store) /\ r.source = "csv-import"
            /\ (Ingestible(f) /\ o.ret.kind = "result" /\ o.ret.error = "") =>
                    \A i \in 1..Len(f.rows) :
                        Cardinality({q \in o.store :
                                        /\ q.trainset_id = T1
                                        /\ q.dept = <<"R", "S">>
                                        /\ q.valid_to = vto[i]}) = 1

\* an ingestion has just skipped a row matching a record made by
\* add_certificate and put a second expiry for its trainset and department
\* next to it
C14_Witness ==
    /\ result.op = "upsert_from_csv"
    /\ result.ret.imported = 1
    /\ result.ret.skipped = 1
    /\ \E r, q \in store :
            /\ r.source = "api" /\ q.source = "csv-import"
            /\ r.trainset_id = q.trainset_id /\ r.dept = q.dept
            /\ r.valid_to < q.valid_to

----------------------------------------------------------------------------
(* C15 *)

\* C15: a missing file, a file of zero bytes, a file with a header and no
\* data row, and a file whose header lacks one of the trainset, department
\* and expiry columns each get a result with imported = 0, skipped = 0 and
\* an error text, nothing being raised and nothing stored.
C15_InputErrorsAreResults ==
    \A f \in IngestFiles :
        (\/ f.kind \in {"missing", "blank"}
         \/ f.rows = <<>>
         \/ ~ ({"train", "dept", "vto"} \subseteq f.cols)) =>
            LET o == UpsertOutcome(store, f)
            IN  /\ o.ret.kind = "result"
                /\ o.ret.imported = 0
                /\ o.ret.skipped = 0
                /\ o.ret.error # ""
                /\ o.store = store

----------------------------------------------------------------------------
(* C16 *)

\* C16: a call on a file that passes the checks before the row loop returns
\* counts with imported + skipped = the number of data rows; a row whose
\* expiry did not parse is among the skipped and every row whose expiry did
\* parse has its record in the table afterwards, wherever in the file it
\* stands; and the rows imported are as many as the records added, a
\* repeated row adding none.
C16_EveryRowCountedOnce ==
    \A f \in IngestFiles :
        Ingestible(f) =>
            LET o   == UpsertOutcome(store, f)
                vto == ParseDateSeries([j \in 1..Len(f.rows) |-> f.rows[j].vto])
            IN  /\ o.ret.kind = "result"
                /\ o.ret.imported + o.ret.skipped = Len(f.rows)
                /\ o.ret.skipped >= Len(f.rows) - ParsedRows(f)
                /\ \A i \in 1..Len(f.rows) :
                        vto[i] # NoDt =>
                            \E q \in o.store :
                                /\ q.trainset_id = T1
                                /\ q.dept = <<"R", "S">>
                                /\ q.valid_to = vto[i]
                /\ o.ret.imported = Cardinality(o.store \ store)

----------------------------------------------------------------------------
(* C17 *)

\* C17: the rows expiring_within returns stand in ascending order of
\* days_to_expiry, rows of equal days_to_expiry in ascending order of
\* train_id, and rows equal in both in ascending order of department.
C17_SortedByDaysTrainDept ==
    result.op = "expiring_within" =>
        LET rows == result.ret.rows
        IN  \A i, j \in 1..Len(rows) :
                i < j =>
                    \/ rows[i].days_to_expiry < rows[j].days_to_expiry
                    \/ /\ rows[i].days_to_expiry = rows[j].days_to_expiry
                       /\ TextLess(rows[i].train_id, rows[j].train_id)
                    \/ /\ rows[i].days_to_expiry = rows[j].days_to_expiry
                       /\ rows[i].train_id = rows[j].train_id
                       /\ TextLess(rows[i].department, rows[j].department)

\* a report of two rows that expire on the same day, for two trainsets,
\* the record of the second trainset being the older one in the table
C17_Witness ==
    /\ result.op = "expiring_within"
    /\ Len(result.ret.rows) = 2
    /\ result.ret.rows[1].days_to_expiry = result.ret.rows[2].days_to_expiry
    /\ result.ret.rows[1].train_id = T1
    /\ result.ret.rows[2].train_id = T2
    /\ \E r, q \in store : r.trainset_id = T2 /\ q.trainset_id = T1 /\ r.id < q.id

----------------------------------------------------------------------------
(* C18 *)

\* "2024-02-01", "01/02/2024", "03/02/2024", "13/02/2024", "02/13/2024",
\* "01-02-2024", "2024-02-03 12:00"
FormatTexts ==
    { Raw("ymd", 2024, 2, 1, 0), Raw("slash", 1, 2, 2024, 0), TextTomorrow,
      Raw("slash", 13, 2, 2024, 0), Raw("slash", 2, 13, 2024, 0),
      Raw("dash", 1, 2, 2024, 0), TextTomorrowNoon }

\* the instant the format order YYYY-MM-DD, DD/MM/YYYY, MM/DD/YYYY,
\* DD-MM-YYYY gives a text, the permissive reading coming last
ReadInOrder(v) ==
    IF v.k = "ymd" THEN Instant(v.f1, v.f2, v.f3, 0)
    ELSE IF v.k = "slash" /\ ValidYMD(v.f3, v.f2, v.f1) THEN Instant(v.f3, v.f2, v.f1, 0)
    ELSE IF v.k = "slash" THEN Instant(v.f3, v.f1, v.f2, 0)
    ELSE IF v.k = "dash" THEN Instant(v.f3, v.f2, v.f1, 0)
    ELSE Instant(v.f1, v.f2, v.f3, v.t)

\* C18: the expiry add_certificate stores for a text is the one the first
\* matching format of YYYY-MM-DD, DD/MM/YYYY, MM/DD/YYYY, DD-MM-YYYY gives:
\* "01/02/2024" is stored as 1 February 2024, and a text with slashes is
\* read month first only when it is no date read day first.
C18_ExplicitFormatsInOrder ==
    /\ \A v \in FormatTexts :
            LET o == AddOutcome(store, AddRecord(<<"T","9">>, RollingStock, NULL, RawNone, v, ""))
            IN  /\ o.ret.kind = "id"
                /\ \E r \in o.store \ store : r.id = o.ret.id /\ r.valid_to = ReadInOrder(v)
    /\ ToDt(Raw("slash", 1, 2, 2024, 0)) = DayNumber(2024, 2, 1) * TicksPerDay
    /\ ToDt(Raw("slash", 2, 13, 2024, 0)) = DayNumber(2024, 2, 13) * TicksPerDay

\* add_certificate has just stored "03/02/2024" as 3 February 2024
C18_Witness ==
    /\ result.op = "add_certificate"
    /\ result.ret.kind = "id"
    /\ \E r \in store :
            /\ r.id = result.ret.id
            /\ r.trainset_id = T2
            /\ r.valid_to = DayNumber(2024, 2, 3) * TicksPerDay

----------------------------------------------------------------------------
(* C19 *)

\* "01/02/2024", "02/03/2024", "13/02/2024", "2024-02-01"
ColumnTexts ==
    { Raw("slash", 1, 2, 2024, 0), CellTomorrow, Raw("slash", 13, 2, 2024, 0),
      Raw("ymd", 2024, 2, 1, 0) }

\* C19: a CSV whose expiry cell is a given text persists the instant that
\* add_certificate stores for the same text, the column being read with
\* the explicit formats first; "01/02/2024" is persisted as 1 February 2024.
C19_ColumnReadLikeSingleValue ==
    \A v \in ColumnTexts :
        LET f == CsvFile("table", {"train", "dept", "vto"},
                         <<CsvRow(<<"T","9">>, RollingStock, v, RawNone, NULL)>>)
            o == UpsertOutcome(store, f)
            a == AddOutcome(store, AddRecord(<<"T","9">>, RollingStock, NULL, RawNone, v, ""))
        IN  /\ o.ret.kind = "result"
            /\ o.ret.imported = 1
            /\ \E r \in o.store \ store, q \in a.store \ store : r.valid_to = q.valid_to
            /\ v = Raw("slash", 1, 2, 2024, 0) =>
                    \E r \in o.store \ store : r.valid_to = DayNumber(2024, 2, 1) * TicksPerDay

----------------------------------------------------------------------------
(* C20 *)

\* "2024-02-01", "02/02/2024", "2024-02-03": yesterday, today, tomorrow
StatuslessTexts == { TextYesterday, TextToday, Raw("ymd", 2024, 2, 3, 0) }

\* the three ways of creating a record of trainset T9 with no status: an
\* add without status, a CSV without status column, a CSV row whose status
\* cell is empty
StatuslessOutcomes(st, v) ==
    { AddOutcome(st, AddRecord(<<"T","9">>, RollingStock, NULL, RawNone, v, "")),
      UpsertOutcome(st, CsvFile("table", {"train", "dept", "vto"},
                                <<CsvRow(<<"T","9">>, RollingStock, v, RawNone, NULL)>>)),
      UpsertOutcome(st, CsvFile("table", {"train", "dept", "vto", "stat"},
                                <<CsvRow(<<"T","9">>, RollingStock, v, RawNone, NULL)>>)) }

\* C20: a record created without a status value is stored with no status,
\* and total_active counts its trainset and department exactly when its
\* valid_to is not before the current instant.
C20_AbsentStatusValidUntilExpiry ==
    \A v \in StatuslessTexts :
        \A o \in StatuslessOutcomes(store, v) :
            /\ Cardinality(o.store \ store) = 1
            /\ \A r \in o.store \ store :
                    /\ r.status = NULL
                    /\ TotalActive(o.store, now) =
                            TotalActive(store, now) + (IF r.valid_to >= now THEN 1 ELSE 0)

----------------------------------------------------------------------------
(* C21 *)

\* a status that is present and is no synonym of "valid"
InvalidStatus(r) == r.status # NULL /\ Lower(r.status) \notin ValidStatusKeys

\* C21: a trainset and department whose latest record has a status that is
\* present and not in the valid-status set appears in no expiring_within
\* report, whatever the days argument, and adds nothing to total_active's
\* count, whatever its valid_to and whatever its older records are.
C21_InvalidLatestNeverReported ==
    \A r \in store :
        (IsMaxOfPair(r, store) /\ InvalidStatus(r)) =>
            /\ \A days \in DaysArgs :
                    LET rows == ExpiringWithin(store, now, days)
                    IN  \A i \in 1..Len(rows) :
                            ~ (rows[i].train_id = r.trainset_id /\ rows[i].department = r.dept)
            /\ TotalActive(store, now) = TotalActive({q \in store : ~ SamePair(q, r)}, now)

\* total_active has just counted nothing in a table whose one trainset and
\* department has a revoked record expiring tomorrow and an older active
\* record not yet expired
C21_Witness ==
    /\ result.op = "total_active"
    /\ result.ret.count = 0
    /\ \E r, q \in store :
            /\ SamePair(r, q)
            /\ InvalidStatus(r) /\ r.valid_to > now /\ DateOf(r.valid_to) = Today(now) + 1
            /\ q.status = Lower(Active) /\ q.valid_to < r.valid_to /\ q.valid_to >= now

----------------------------------------------------------------------------
(* C22 *)

\* patches that blank the trainset or the department: "", "  " and ""
BlankingPatches ==
    { Patch({"trainset_id"}, <<>>, NULL, NULL, RawNone, RawNone),
      Patch({"trainset_id"}, <<" ", " ">>, NULL, NULL, RawNone, RawNone),
      Patch({"dept"}, NULL, <<>>, NULL, RawNone, RawNone) }

\* C22: every record of the table has a non-empty trainset_id and a
\* non-empty dept, and no update_certificate call leaves a record without
\* one of them.
C22_TrainsetAndDeptNeverEmpty ==
    /\ \A r \in store : r.trainset_id # <<>> /\ r.dept # <<>>
    /\ \A c \in store, patch \in PatchInputs \cup BlankingPatches :
            \A r \in UpdateOutcome(store, c.id, patch).store :
                r.trainset_id # <<>> /\ r.dept # <<>>

----------------------------------------------------------------------------
(* C23 *)

\* C23: on one table and one instant, every row expiring_within(M) returns
\* is returned, with the same four fields, by expiring_within(N) for every
\* N >= M, and expiring_within of a negative number returns no row.
C23_MonotoneInDays ==
    /\ \A m, n \in DaysArgs :
            m <= n =>
                LET small == ExpiringWithin(store, now, m)
                    large == ExpiringWithin(store, now, n)
                IN  \A i \in 1..Len(small) : \E j \in 1..Len(large) : large[j] = small[i]
    /\ \A n \in DaysArgs : n < 0 => ExpiringWithin(store, now, n) = <<>>

\* expiring_within(0) has just returned one row where expiring_within(1)
\* returns that row and one more
C23_Witness ==
    /\ result.op = "expiring_within"
    /\ result.arg = 0
    /\ Len(result.ret.rows) = 1
    /\ Len(ExpiringWithin(store, now, 1)) = 2
    /\ \E j \in 1..2 : ExpiringWithin(store, now, 1)[j] = result.ret.rows[1]

----------------------------------------------------------------------------
(* C24 *)

\* patches whose status is "" and null (None)
ClearingPatches ==
    { Patch({"status"}, NULL, NULL, <<>>, RawNone, RawNone),
      Patch({"status"}, NULL, NULL, NULL, RawNone, RawNone) }

\* C24: update_certificate with a status of "" or null leaves the record
\* with no status, and total_active then counts the record's trainset and
\* department, if the record is their latest, exactly when its valid_to is
\* not before the current instant.
C24_EmptyStatusClears ==
    \A c \in store, patch \in ClearingPatches :
        LET u == UpdateOutcome(store, c.id, patch)
        IN  /\ u.ret.kind = "result"
            /\ u.ret.updated = 1
            /\ \E r \in u.store :
                    /\ r.id = c.id
                    /\ r.status = NULL
                    /\ IsMaxOfPair(r, u.store) =>
                            TotalActive(u.store, now) =
                                TotalActive({q \in u.store : ~ SamePair(q, r)}, now)
                                + (IF r.valid_to >= now THEN 1 ELSE 0)

====
